---- MODULE Spec2Model ----
(***************************************************************************)
(* Model of google/cloud/aiplatform/metadata/_models.py: the input-example *)
(* encoder (_save_input_example) and the save_model / load_model life      *)
(* cycle over an object store, a metadata store and a local temp dir.      *)
(*                                                                         *)
(* Specifications:                                                         *)
(*   SpecEnc       the encoder applied to every input example of bounded   *)
(*                 size                                                    *)
(*   Spec          sequences of save_model / load_model calls, step by     *)
(*                 step                                                    *)
(*   SpecRepeat    the same model saved again and again                    *)
(*   SpecRegister  register_model on saved records                         *)
(*   SpecVersion   a model saved under one sklearn version and loaded      *)
(*                 under another                                           *)
(*   SpecConfig    the configuration delegate (_Config) of                 *)
(*                 private_preview/vertex_ai/initializer.py                *)
(***************************************************************************)
EXTENDS Integers, Sequences, FiniteSets, TLC

VARIABLES
    \* ---- encoder (_save_input_example) ----
    input_example,   \* the argument: [ty, items]
    pandas,          \* whether "import pandas" succeeds
    path,            \* the directory the descriptor is written to
    enc_result,      \* outcome of the call: [status, error]
    enc_pc,          \* "ready" before the call, "done" after
    \* ---- save_model / load_model ----
    pc,              \* position of the single (synchronous) caller
    call,            \* arguments and locals of the call in progress (or the last one)
    staging_bucket,  \* initializer.global_config.staging_bucket ("" when unset)
    buckets,         \* object storage: the buckets that exist
    gcs,             \* object storage: directory uri -> files
    artifacts,       \* metadata store: the artifact records, in creation order
    temp_dir,        \* the local temporary directory of the call in progress
    trace,           \* steps and collaborator calls of the call in progress (or the last one)
    result,          \* what the last call returned or raised
    clock,           \* timestamps handed out so far
    budget,          \* number of save_model calls the behaviour may still start
    last_saved,      \* history: the save that completed with no save started since
    saves,           \* history: the calls of save_model that returned, in order
    \* ---- _Config (private_preview/vertex_ai/initializer.py) ----
    remote,          \* global_config._remote
    inits,           \* history: the remote argument of every call of init, in order
    cfg_result       \* what the last call on the delegate returned or raised

enc_vars == <<input_example, pandas, path, enc_result, enc_pc>>
orch_vars == <<pc, call, staging_bucket, buckets, gcs, artifacts, temp_dir,
               trace, result, clock, budget, last_saved, saves>>
cfg_vars == <<remote, inits, cfg_result>>
vars == <<input_example, pandas, path, enc_result, enc_pc,
          pc, call, staging_bucket, buckets, gcs, artifacts, temp_dir,
          trace, result, clock, budget, last_saved, saves,
          remote, inits, cfg_result>>

\* ------------------------------------------------------------------ bounds
\* longest list / column / array of an input example
MaxLen == 6
\* most keys of a dict and columns of a frame
MaxKeys == 2
\* longest list whose elements are of mixed kinds
MaxMixed == 3
\* most save_model calls in a behaviour of Spec
MaxSaves == 1
\* most save_model calls in a behaviour of SpecRepeat
MaxRepeats == 2
\* most calls of _Config.init in a behaviour of SpecConfig
MaxInits == 3

\* ------------------------------------------------------- program constants
PICKLE_PROTOCOL == 4
MAX_INPUT_EXAMPLE_ROWS == 5

Min(a, b) == IF a <= b THEN a ELSE b

\* ===================================================== input-example encoder
\* A python value inside an input example: an element of a list, a value of a
\* dict, a row of an array or a column of a frame.
\*   kind "scalar"  np.isscalar(x): val = <<x>>
\*   kind "list"    isinstance(x, list): val = its elements
\*   kind "ndarray" isinstance(x, np.ndarray): val = its elements
\*   kind "other"   none of these (None, a tuple, a dict ...)
Elem(k, kind, v) == [key |-> k, kind |-> kind, val |-> v]

\* input_example[:_MAX_INPUT_EXAMPLE_ROWS]
Slice(s) == SubSeq(s, 1, Min(Len(s), MAX_INPUT_EXAMPLE_ROWS))

AllKind(items, kind) == \A i \in 1..Len(items) : items[i].kind = kind

\* ndarray.tolist()
tolist(e) == [e EXCEPT !.kind = "list"]

NoExample == [type |-> "", data |-> <<>>]
ExampleDoc(type, data) == [type |-> type, data |-> data]

\* lines 223-235: raises for a list that is neither all lists nor all scalars
ListRaises(items) == ~AllKind(items, "list") /\ ~AllKind(items, "scalar")

\* the scalar list cut like the nested one
ScalarListData_Cut(items) == Slice(items)

\* lines 229-233: a list of scalars is kept whole
ScalarListData(items) == items

\* the nested list kept whole
NestedListData_Whole(items) == items

\* lines 224-228: a list of lists keeps its first rows
NestedListData(items) == Slice(items)

ListExample(items) ==
    IF AllKind(items, "list")
    THEN ExampleDoc("list", NestedListData(items))
    ELSE ExampleDoc("list", ScalarListData(items))

\* a dict with some scalar value taken for a dict of scalars (any for all)
DictRaises_AnyScalar(items) ==
    /\ ~AllKind(items, "list")
    /\ ~AllKind(items, "ndarray")
    /\ ~\E i \in 1..Len(items) : items[i].kind = "scalar"

\* lines 237-258: raises for a dict whose values are neither all lists, nor all
\* arrays, nor all scalars
DictRaises(items) ==
    /\ ~AllKind(items, "list")
    /\ ~AllKind(items, "ndarray")
    /\ ~AllKind(items, "scalar")

\* the arrays of a dict converted whole
DictArrayData_Whole(items) == [i \in 1..Len(items) |-> tolist(items[i])]

\* lines 245-252: {k: v[:5].tolist()}
DictArrayData(items) ==
    [i \in 1..Len(items) |-> tolist([items[i] EXCEPT !.val = Slice(@)])]

\* lines 238-244: {k: v[:5]}
DictListData(items) ==
    [i \in 1..Len(items) |-> [items[i] EXCEPT !.val = Slice(@)]]

DictExample(items) ==
    IF AllKind(items, "list") THEN ExampleDoc("dict", DictListData(items))
    ELSE IF AllKind(items, "ndarray") THEN ExampleDoc("dict", DictArrayData(items))
    ELSE ExampleDoc("dict", items)

\* lines 260-264: input_example[:5].tolist()
ArrayExample(items) ==
    ExampleDoc("numpy.ndarray", [i \in 1..Len(Slice(items)) |-> tolist(Slice(items)[i])])

\* lines 269-273: input_example.head(5).to_dict("list")
FrameExample(items) ==
    ExampleDoc("pandas.DataFrame",
               [i \in 1..Len(items) |-> [items[i] EXCEPT !.kind = "list", !.val = Slice(@)]])

ValueError(msg) == [type |-> "ValueError", msg |-> msg]
NoError == [type |-> "", msg |-> <<>>]

\* lines 222-283: the document of an input example, or the error raised
BuildExample(ie, has_pandas) ==
    IF ie.ty = "list" /\ ListRaises(ie.items)
    THEN [ok |-> FALSE, example |-> NoExample,
          error |-> ValueError(<<"The value inside a list must be a scalar or list.">>)]
    ELSE IF ie.ty = "dict" /\ DictRaises(ie.items)
    THEN [ok |-> FALSE, example |-> NoExample,
          error |-> ValueError(<<"The value inside a dictionary must be a scalar, list, or np.ndarray">>)]
    ELSE LET e1 == IF ie.ty = "list" THEN ListExample(ie.items) ELSE NoExample
             e2 == IF ie.ty = "dict" THEN DictExample(ie.items) ELSE e1
             e3 == IF ie.ty = "ndarray" THEN ArrayExample(ie.items) ELSE e2
             e4 == IF has_pandas /\ ie.ty = "DataFrame" THEN FrameExample(ie.items) ELSE e3
         IN  IF e4 = NoExample
             THEN [ok |-> FALSE, example |-> NoExample,
                   error |-> ValueError(<<"Input example type not supported. ",
                                          "Valid example must be a list, dict, np.ndarray, or pd.DataFrame.">>)]
             ELSE [ok |-> TRUE, example |-> e4, error |-> NoError]

\* A file of a directory: the model file or the descriptor.
NoPkl == [written |-> FALSE, protocol |-> 0, module |-> "", name |-> "", state |-> ""]
NoYaml == [written |-> FALSE, type |-> "", data |-> <<>>]
EmptyDir == [pkl |-> NoPkl, yaml |-> NoYaml]

\* lines 285-289: yaml.dump({"input_example": example}, file, sort_keys=False)
yaml_dump(example) == [written |-> TRUE, type |-> example.type, data |-> example.data]

\* lines 187-289: the directory after the call, and the outcome
save_input_example(ie, dir, has_pandas) ==
    LET b == BuildExample(ie, has_pandas)
    IN  IF b.ok
        THEN [dir |-> [dir EXCEPT !.yaml = yaml_dump(b.example)], ok |-> TRUE, error |-> NoError]
        ELSE [dir |-> dir, ok |-> FALSE, error |-> b.error]

\* ------------------------------------------------ the inputs of the encoder
Range(n, off) == [i \in 1..n |-> off + i]
SeqsUpTo(S, n) == UNION {[1..k -> S] : k \in 0..n}

ScalarElems == {Elem("", "scalar", <<n>>) : n \in 1..2}
ListElems == {Elem("", "list", v) : v \in {<<1>>, <<2, 1>>}}
OtherElems == {Elem("", "other", <<>>)}
RowElems == {Elem("", "ndarray", v) : v \in {<<1>>, <<2>>}}

ListInputs ==
    {[ty |-> "list", items |-> s] :
        s \in SeqsUpTo(ScalarElems, MaxLen) \cup SeqsUpTo(ListElems, MaxLen)
              \cup SeqsUpTo(ScalarElems \cup ListElems \cup OtherElems, MaxMixed)}

Keys == <<"a", "b", "c", "d">>
DictVals ==
    {Elem("", kind, Range(n, 0)) : kind \in {"list", "ndarray"}, n \in 0..MaxLen}
    \cup ScalarElems \cup OtherElems
Keyed(s) == [i \in 1..Len(s) |-> [s[i] EXCEPT !.key = Keys[i]]]
DictInputs == {[ty |-> "dict", items |-> Keyed(s)] : s \in SeqsUpTo(DictVals, MaxKeys)}

ArrayInputs == {[ty |-> "ndarray", items |-> s] : s \in SeqsUpTo(RowElems, MaxLen)}

FrameInputs ==
    {[ty |-> "DataFrame",
      items |-> [i \in 1..k |-> Elem(Keys[i], "series", Range(n, 10 * i))]] :
        k \in 0..MaxKeys, n \in 0..MaxLen}

\* a str, a tuple, a number: none of the four accepted types
OtherInputs == {[ty |-> "other", items |-> <<>>]}

ExampleInputs == ListInputs \cup DictInputs \cup ArrayInputs \cup FrameInputs \cup OtherInputs


\* ======================================================= models and pickle
\* A model object: its class (module, name) and its fitted state. The state
\* "unpicklable" stands for an attribute pickle cannot serialize.
Model(module, name, params) == [module |-> module, name |-> name, params |-> params]
NoModel == Model("", "", "")

\* the classes that derive from sklearn.base.BaseEstimator
EstimatorClasses == {<<"sklearn.linear_model._base", "LinearRegression">>}

Models ==
    {Model("sklearn.linear_model._base", "LinearRegression", p) :
        p \in {"coef_a", "coef_b", "unpicklable"}}
    \cup {Model("torch.nn.modules.linear", "Linear", "coef_a")}

\* what `import sklearn` finds where a call runs: a version, or nothing
NotInstalled == ""
Versions == {"1.2.2"}
Installs == Versions \cup {NotInstalled}

\* line 119: isinstance(model, sklearn.base.BaseEstimator)
IsBaseEstimator(m) == <<m.module, m.name>> \in EstimatorClasses

\* lines 43-49
FRAMEWORK_SPECS == [sklearn |-> [save_method |-> "_save_sklearn_model",
                                 load_method |-> "_load_sklearn_model",
                                 model_file |-> "model.pkl"]]

\* lines 113-121: (framework_name, framework_version) of a model
DetectFramework(m, installed) ==
    IF installed # NotInstalled /\ IsBaseEstimator(m)
    THEN [name |-> "sklearn", version |-> installed]
    ELSE [name |-> "", version |-> ""]

\* the registry check never failing
Unsupported_Never(framework_name) == FALSE

\* lines 123, 327: framework_name not in _FRAMEWORK_SPECS
Unsupported(framework_name) == framework_name \notin DOMAIN FRAMEWORK_SPECS

\* the message built from the bare class name
UnsupportedModelError_NameOnly(m) ==
    ValueError(<<"Model type ", m.name, " not supported.">>)

\* lines 124-126: f"Model type {module}.{name} not supported."
UnsupportedModelError(m) ==
    ValueError(<<"Model type ", m.module, ".", m.name, " not supported.">>)

\* line 328: f"Model type {framework_name} not supported."
UnsupportedFrameworkError(framework_name) ==
    ValueError(<<"Model type ", framework_name, " not supported.">>)

\* lines 304-305: pickle.dump(model, f, protocol=_PICKLE_PROTOCOL); the class is
\* written by reference (module and qualified name), the state by value
Picklable(m) == m.params # "unpicklable"
PicklingError == [type |-> "PicklingError", msg |-> <<"Can't pickle">>]
pickle_dump(m) ==
    [written |-> TRUE, protocol |-> PICKLE_PROTOCOL,
     module |-> m.module, name |-> m.name, state |-> m.params]

\* a fresh instance of the class, its stored state dropped
pickle_load_Unfitted(f) == Model(f.module, f.name, "coef_a")

\* lines 372-373: pickle.load(f): an instance of the referenced class with
\* the stored state
pickle_load(f) == Model(f.module, f.name, f.state)

\* =============================================================== locations
\* A gcs directory: bucket, unique name (0, 0 when there is none) and the
\* rest of the path. NoUri is both None and "": `not uri` holds of it.
NoUnique == [ts |-> 0, tok |-> ""]
NoUri == [bucket |-> <<>>, unique |-> NoUnique, rest |-> <<>>]
ExplicitUris == {[bucket |-> <<"gs://my-bucket">>, unique |-> NoUnique,
                  rest |-> <<"/models/lr">>]}
Tokens == {"0b7e1", "a3f9c"}

\* lines 135-137: python's `a or b` on strings
Or(a, b) == IF a # "" THEN a ELSE b

\* the project argument of save_model: None, or a project
Projects == {"", "team-project"}

\* initializer.global_config.project / .location
Project == "my-project"
Location == "us-central1"
ConfiguredBucket == <<"gs://my-staging">>
NoBucket == <<>>

\* the staging location resolved whether or not a uri is given
NeedsStagingUri_Always(uri) == TRUE

\* line 131: `not uri`
NeedsStagingUri(uri) == uri = NoUri

\* the default bucket looked up whether or not a staging bucket is configured
NeedsDefaultBucket_Always(bucket) == TRUE

\* line 134: `not staging_bucket`
NeedsDefaultBucket(bucket) == bucket = NoBucket

\* line 139: project + "-vertex-staging-" + location
StagingBucketName(project, location) == <<project, "-vertex-staging-", location>>

\* line 149: f"gs://{staging_bucket_name}"
GsPrefix(name) == <<"gs://">> \o name

\* the destination composed without the unique name
StagingUri_NoUnique(bucket, unique_name, framework_name) ==
    [bucket |-> bucket, unique |-> NoUnique,
     rest |-> <<"-", framework_name, "-model">>]

\* line 152: f"{staging_bucket}/{unique_name}-{framework_name}-model"
StagingUri(bucket, unique_name, framework_name) ==
    [bucket |-> bucket, unique |-> unique_name,
     rest |-> <<"-", framework_name, "-model">>]

\* lines 161, 334: os.path.join(uri, file)
PathJoin(uri, file) == [dir |-> uri, file |-> file]
NoPath == [dir |-> NoUri, file |-> ""]

\* ================================================================= records
ArtifactId(name, n) == [name |-> name, n |-> n]
NoId == ArtifactId("", 0)
NoArtifact ==
    [id |-> NoId, framework_name |-> "", framework_version |-> "", model_file |-> "",
     model_class |-> <<>>, predict_schemata |-> NoPath, uri |-> NoUri]

\* a record some other tool created, of a framework this module has no adapter for
ForeignArtifact ==
    [id |-> ArtifactId("tf-model", 0), framework_name |-> "tensorflow",
     framework_version |-> "2.11.0", model_file |-> "saved_model.pb",
     model_class |-> <<"keras", ".", "Model">>, predict_schemata |-> NoPath,
     uri |-> [bucket |-> <<"gs://my-bucket">>, unique |-> NoUnique, rest |-> <<"/models/tf">>]]

\* the artifact_id argument: None, a new id, the id of an existing record
ArtifactIds == {NoId, ArtifactId("my-model", 0), ForeignArtifact.id}

NoTempDir == [exists |-> FALSE, files |-> EmptyDir]
NewTempDir == [exists |-> TRUE, files |-> EmptyDir]

\* the directory removed on return only (a cleanup after the block, not a scope)
ExitTempDir_ReturnOnly(dir, raised) == IF raised THEN dir ELSE NoTempDir

\* line 154, 333: leaving `with tempfile.TemporaryDirectory()`, by return or by
\* exception, removes the directory
ExitTempDir(dir, raised) == NoTempDir

\* what the collaborators raise
ApiError(what) == [type |-> "GoogleAPIError", msg |-> <<what>>]
AlreadyExists(id) == [type |-> "AlreadyExists", msg |-> <<id.name>>]
NotFound(what) == [type |-> "NotFound", msg |-> <<what>>]

\* an entry of the trace: a step of the call, how it ended and what it raised
\* (arg: the argument a collaborator was called with, where a claim reads it)
StepWith(step, outcome, arg) ==
    [step |-> step, outcome |-> outcome, error |-> NoError, arg |-> arg]
Step(step, outcome) == StepWith(step, outcome, <<>>)
Failed(step, e) == [step |-> step, outcome |-> "error", error |-> e, arg |-> <<>>]

NoCall ==
    [op |-> "", sklearn |-> NotInstalled, project |-> "", model |-> NoModel, artifact_id |-> NoId, uri_arg |-> NoUri,
     input_example |-> [ty |-> "None", items |-> <<>>],
     framework_name |-> "", framework_version |-> "", staging_bucket |-> NoBucket,
     uri |-> NoUri, predict_schemata |-> NoPath,
     arg_is_str |-> FALSE, arg_id |-> NoId, record |-> NoArtifact,
     image_arg |-> <<>>, serving_container_image_uri |-> <<>>, use_gpu |-> FALSE,
     display_name |-> <<>>]

NoResult ==
    [op |-> "", status |-> "", error |-> NoError, artifact |-> NoArtifact, model |-> NoModel]
Raised(op, e) == [NoResult EXCEPT !.op = op, !.status = "error", !.error = e]

NoSave == [valid |-> FALSE, id |-> NoId, model |-> NoModel, input_example |-> FALSE]


\* =========================================================== collaborators
\* gcs_utils.upload_to_gcs(temp_dir, uri): every file of the directory is
\* written under uri, replacing an object of the same name
Overlay(old, new) ==
    [pkl |-> IF new.pkl.written THEN new.pkl ELSE old.pkl,
     yaml |-> IF new.yaml.written THEN new.yaml ELSE old.yaml]
ObjectsAt(store, uri) == IF uri \in DOMAIN store THEN store[uri] ELSE EmptyDir
upload_to_gcs(store, files, uri) ==
    [u \in DOMAIN store \cup {uri} |->
        IF u = uri THEN Overlay(ObjectsAt(store, uri), files) ELSE store[u]]

\* what an upload that fails may have written already: any part of the files
Parts(files) ==
    {[pkl |-> p, yaml |-> y] : p \in {NoPkl, files.pkl}, y \in {NoYaml, files.yaml}}

\* gcs_utils.download_file_from_gcs(source_file_uri, destination_file_path)
HasModelFile(store, source) ==
    /\ source.file = "model.pkl"
    /\ source.dir \in DOMAIN store
    /\ store[source.dir].pkl.written
download_file_from_gcs(store, source) == store[source.dir].pkl

\* Artifact.create: the metadata service keeps the given resource id, or
\* assigns one no other record has
IdsOf(records) == {records[i].id : i \in 1..Len(records)}
AssignedId(records, artifact_id) ==
    IF artifact_id = NoId THEN ArtifactId("", Len(records) + 1) ELSE artifact_id

\* aiplatform.get_experiment_model(artifact_id)
HasArtifact(records, id) == id \in IdsOf(records)
get_experiment_model(records, id) ==
    records[CHOOSE i \in 1..Len(records) : records[i].id = id]

\* utils.timestamped_unique_name(): a timestamp and a random token; no name
\* is handed out twice
timestamped_unique_name(now, tok) == [ts |-> now, tok |-> tok]

\* ================================================================= actions
Abort(e) ==
    /\ pc' = "idle"
    /\ result' = Raised(call.op, e)

\* ---- save_model, lines 113-134: detect the framework, pick the branch
save_model_begin(m, aid, u, ex, project, installed) ==
    /\ pc = "idle"
    /\ budget > 0
    /\ IsBaseEstimator(m) => installed # NotInstalled
    /\ budget' = budget - 1
    /\ last_saved' = NoSave
    /\ trace' = <<>>
    /\ LET fw == DetectFramework(m, installed)
           c == [NoCall EXCEPT !.op = "save", !.sklearn = installed,
                               !.model = m, !.artifact_id = aid, !.project = project,
                               !.uri_arg = u, !.input_example = ex,
                               !.framework_name = fw.name,
                               !.framework_version = fw.version,
                               !.staging_bucket = staging_bucket,
                               !.uri = u]
       IN  /\ call' = c
           /\ IF Unsupported(fw.name)
              THEN /\ pc' = "idle"
                   /\ result' = Raised("save", UnsupportedModelError(m))
              ELSE /\ result' = NoResult
                   /\ pc' = IF ~NeedsStagingUri(u) THEN "save_serialize"
                            ELSE IF NeedsDefaultBucket(staging_bucket) THEN "save_exists"
                            ELSE "save_name"
    /\ UNCHANGED <<staging_bucket, buckets, gcs, artifacts, temp_dir, clock, saves>>
    /\ UNCHANGED <<enc_vars, cfg_vars>>

\* ---- lines 139-142: staging_bucket.exists()
save_bucket_exists ==
    /\ pc = "save_exists"
    /\ LET name == StagingBucketName(Or(call.project, Project), Location)
       IN  \/ /\ name \in buckets
              /\ trace' = Append(trace, StepWith("bucket_exists", "present", name))
              /\ call' = [call EXCEPT !.staging_bucket = GsPrefix(name)]
              /\ pc' = "save_name"
              /\ UNCHANGED result
           \/ /\ name \notin buckets
              /\ trace' = Append(trace, StepWith("bucket_exists", "absent", name))
              /\ pc' = "save_create_bucket"
              /\ UNCHANGED <<call, result>>
           \/ /\ trace' = Append(trace, Failed("bucket_exists", ApiError("bucket_exists")))
              /\ Abort(ApiError("bucket_exists"))
              /\ UNCHANGED call
    /\ UNCHANGED <<staging_bucket, buckets, gcs, artifacts, temp_dir, clock,
                   budget, last_saved, saves>>
    /\ UNCHANGED <<enc_vars, cfg_vars>>

\* ---- lines 143-149: client.create_bucket(...)
save_create_bucket ==
    /\ pc = "save_create_bucket"
    /\ LET name == StagingBucketName(Or(call.project, Project), Location)
       IN  \/ /\ trace' = Append(trace, StepWith("create_bucket", "ok", name))
              /\ buckets' = buckets \cup {name}
              /\ call' = [call EXCEPT !.staging_bucket = GsPrefix(name)]
              /\ pc' = "save_name"
              /\ UNCHANGED result
           \/ /\ trace' = Append(trace, Failed("create_bucket", ApiError("create_bucket")))
              /\ Abort(ApiError("create_bucket"))
              /\ UNCHANGED <<buckets, call>>
    /\ UNCHANGED <<staging_bucket, gcs, artifacts, temp_dir, clock,
                   budget, last_saved, saves>>
    /\ UNCHANGED <<enc_vars, cfg_vars>>

\* ---- lines 151-152: the destination under the staging bucket
save_unique_name ==
    /\ pc = "save_name"
    /\ \E tok \in Tokens :
          /\ clock' = clock + 1
          /\ call' = [call EXCEPT !.uri =
                        StagingUri(call.staging_bucket,
                                   timestamped_unique_name(clock + 1, tok),
                                   call.framework_name)]
    /\ pc' = "save_serialize"
    /\ UNCHANGED <<staging_bucket, buckets, gcs, artifacts, temp_dir, trace,
                   result, budget, last_saved, saves>>
    /\ UNCHANGED <<enc_vars, cfg_vars>>

\* the record created straight after save_method, the upload skipped
AfterSerialize_NoUpload(ie) == IF ie.ty # "None" THEN "save_example" ELSE "save_artifact"

\* lines 158-165: after save_method the descriptor is written if there is an
\* input example, and then the directory is uploaded
AfterSerialize(ie) == IF ie.ty # "None" THEN "save_example" ELSE "save_upload"

\* ---- lines 154-156: enter the temporary directory, save_method(model, file)
save_serialize ==
    /\ pc = "save_serialize"
    /\ IF Picklable(call.model)
       THEN /\ trace' = Append(trace, Step("save_method", "ok"))
            /\ temp_dir' = [NewTempDir EXCEPT !.files.pkl = pickle_dump(call.model)]
            /\ pc' = AfterSerialize(call.input_example)
            /\ UNCHANGED result
       ELSE /\ trace' = Append(trace, Failed("save_method", PicklingError))
            /\ temp_dir' = ExitTempDir(NewTempDir, TRUE)
            /\ Abort(PicklingError)
    /\ UNCHANGED <<call, staging_bucket, buckets, gcs, artifacts, clock,
                   budget, last_saved, saves>>
    /\ UNCHANGED <<enc_vars, cfg_vars>>

\* ---- lines 158-162: the descriptor of the input example
save_example ==
    /\ pc = "save_example"
    /\ LET r == save_input_example(call.input_example, temp_dir.files, pandas)
       IN  IF r.ok
           THEN /\ trace' = Append(trace, Step("save_input_example", "ok"))
                /\ temp_dir' = [temp_dir EXCEPT !.files = r.dir]
                /\ call' = [call EXCEPT !.predict_schemata = PathJoin(call.uri, "instance.yaml")]
                /\ pc' = "save_upload"
                /\ UNCHANGED result
           ELSE /\ trace' = Append(trace, Failed("save_input_example", r.error))
                /\ temp_dir' = ExitTempDir(temp_dir, TRUE)
                /\ Abort(r.error)
                /\ UNCHANGED call
    /\ UNCHANGED <<staging_bucket, buckets, gcs, artifacts, clock,
                   budget, last_saved, saves>>
    /\ UNCHANGED <<enc_vars, cfg_vars>>

\* ---- line 165: gcs_utils.upload_to_gcs(temp_dir, uri), then leave the directory
save_upload ==
    /\ pc = "save_upload"
    /\ \/ /\ trace' = Append(trace, Step("upload_to_gcs", "ok"))
          /\ gcs' = upload_to_gcs(gcs, temp_dir.files, call.uri)
          /\ temp_dir' = ExitTempDir(temp_dir, FALSE)
          /\ pc' = "save_artifact"
          /\ UNCHANGED result
       \/ /\ trace' = Append(trace, Failed("upload_to_gcs", ApiError("upload_to_gcs")))
          /\ \E part \in Parts(temp_dir.files) :
                gcs' = IF part = EmptyDir THEN gcs ELSE upload_to_gcs(gcs, part, call.uri)
          /\ temp_dir' = ExitTempDir(temp_dir, TRUE)
          /\ Abort(ApiError("upload_to_gcs"))
    /\ UNCHANGED <<call, staging_bucket, buckets, artifacts, clock,
                   budget, last_saved, saves>>
    /\ UNCHANGED <<enc_vars, cfg_vars>>

\* lines 167-176: the record of the artifact
ExperimentModel(c, id) ==
    [id |-> id,
     framework_name |-> c.framework_name,
     framework_version |-> c.framework_version,
     model_file |-> FRAMEWORK_SPECS[c.framework_name].model_file,
     model_class |-> <<c.model.module, ".", c.model.name>>,
     predict_schemata |-> c.predict_schemata,
     uri |-> c.uri]

\* ---- lines 167-184: create the record, return it
save_artifact ==
    /\ pc = "save_artifact"
    /\ \/ /\ ~HasArtifact(artifacts, call.artifact_id)
          /\ LET a == ExperimentModel(call, AssignedId(artifacts, call.artifact_id))
             IN  /\ artifacts' = Append(artifacts, a)
                 /\ result' = [NoResult EXCEPT !.op = "save", !.status = "ok", !.artifact = a]
                 /\ last_saved' = [valid |-> TRUE, id |-> a.id, model |-> call.model,
                                   input_example |-> call.input_example.ty # "None"]
                 /\ saves' = Append(saves, call)
          /\ trace' = Append(trace, Step("create", "ok"))
          /\ pc' = "idle"
       \/ /\ HasArtifact(artifacts, call.artifact_id)
          /\ trace' = Append(trace, Failed("create", AlreadyExists(call.artifact_id)))
          /\ Abort(AlreadyExists(call.artifact_id))
          /\ UNCHANGED <<artifacts, last_saved, saves>>
       \/ /\ trace' = Append(trace, Failed("create", ApiError("create")))
          /\ Abort(ApiError("create"))
          /\ UNCHANGED <<artifacts, last_saved, saves>>
    /\ UNCHANGED <<call, staging_bucket, buckets, gcs, temp_dir, clock, budget>>
    /\ UNCHANGED <<enc_vars, cfg_vars>>


\* ---- load_model, lines 323-331: resolve the record, check its framework
load_model_begin(is_str, id, rec, installed) ==
    /\ pc = "idle"
    /\ LET c == [NoCall EXCEPT !.op = "load", !.sklearn = installed,
                               !.arg_is_str = is_str, !.arg_id = id]
       IN  \/ /\ is_str
              /\ ~HasArtifact(artifacts, id)
              /\ call' = c
              /\ trace' = <<Failed("get_experiment_model", NotFound(id.name))>>
              /\ pc' = "idle"
              /\ result' = Raised("load", NotFound(id.name))
           \/ /\ is_str => HasArtifact(artifacts, id)
              /\ LET model == IF is_str THEN get_experiment_model(artifacts, id) ELSE rec
                     t == IF is_str THEN <<Step("get_experiment_model", "ok")>> ELSE <<>>
                 IN  /\ call' = [c EXCEPT !.record = model,
                                          !.framework_name = model.framework_name]
                     /\ trace' = t
                     /\ IF Unsupported(model.framework_name)
                        THEN /\ pc' = "idle"
                             /\ result' = Raised("load",
                                    UnsupportedFrameworkError(model.framework_name))
                        ELSE /\ pc' = "load_download"
                             /\ result' = NoResult
    /\ UNCHANGED <<staging_bucket, buckets, gcs, artifacts, temp_dir, clock,
                   budget, last_saved, saves>>
    /\ UNCHANGED <<enc_vars, cfg_vars>>

\* line 334: os.path.join(model.uri, model_file)
SourceFileUri(rec) == PathJoin(rec.uri, FRAMEWORK_SPECS[rec.framework_name].model_file)

\* ---- lines 333-336: enter the temporary directory, download the model file
load_download ==
    /\ pc = "load_download"
    /\ LET source == SourceFileUri(call.record)
       IN  \/ /\ HasModelFile(gcs, source)
              /\ trace' = Append(trace, Step("download_file_from_gcs", "ok"))
              /\ temp_dir' = [NewTempDir EXCEPT !.files.pkl = download_file_from_gcs(gcs, source)]
              /\ pc' = "load_method"
              /\ UNCHANGED result
           \/ /\ LET e == IF HasModelFile(gcs, source)
                           THEN ApiError("download_file_from_gcs")
                           ELSE NotFound(source.file)
                 IN  /\ trace' = Append(trace, Failed("download_file_from_gcs", e))
                     /\ Abort(e)
              /\ temp_dir' = ExitTempDir(NewTempDir, TRUE)
    /\ UNCHANGED <<call, staging_bucket, buckets, gcs, artifacts, clock,
                   budget, last_saved, saves>>
    /\ UNCHANGED <<enc_vars, cfg_vars>>

\* the code points of the characters of a version string
CodePoints(version) ==
    CASE version = "1.2.2" -> <<49, 46, 50, 46, 50>>
      [] version = "1.3.0" -> <<49, 46, 51, 46, 48>>
      [] version = "1.9.0" -> <<49, 46, 57, 46, 48>>
      [] version = "1.10.0" -> <<49, 46, 49, 48, 46, 48>>
      [] version = "2.11.0" -> <<50, 46, 49, 49, 46, 48>>
      [] version = "" -> <<>>

\* python's `<` on strings: the first differing character decides, a proper
\* prefix is less
StrLess(a, b) ==
    \E k \in 1..Len(b) :
        /\ k <= Len(a) + 1
        /\ \A i \in 1..(k - 1) : a[i] = b[i]
        /\ k = Len(a) + 1 \/ a[k] < b[k]

\* the versions sklearn is installed in, when a model saved under one is loaded
\* under another
SklearnVersions == {"1.2.2", "1.3.0", "1.9.0", "1.10.0"}

\* the warning given for any two versions that differ
VersionWarning_Differs(running, recorded) == running # recorded

\* line 366: sklearn.__version__ < model_artifact.framework_version
VersionWarning(running, recorded) == StrLess(CodePoints(running), CodePoints(recorded))

\* lines 342-375: _load_sklearn_model(model_file, model_artifact)
load_sklearn_model(file, model_artifact, installed) ==
    IF installed = NotInstalled
    THEN [ok |-> FALSE, model |-> NoModel, warned |-> FALSE,
          error |-> [type |-> "ImportError",
                     msg |-> <<"sklearn is not installed and is required for loading models.">>]]
    ELSE [ok |-> TRUE, model |-> pickle_load(file), error |-> NoError,
          warned |-> VersionWarning(installed, model_artifact.framework_version)]

\* ---- lines 337-339: load_method(destination_file_path, model), leave the directory
load_method ==
    /\ pc = "load_method"
    /\ LET r == load_sklearn_model(temp_dir.files.pkl, call.record, call.sklearn)
           warning == StepWith("_LOGGER.warning", "ok",
                               <<call.record.framework_version, call.sklearn>>)
       IN  IF r.ok
           THEN /\ trace' = Append(IF r.warned THEN Append(trace, warning) ELSE trace,
                                   Step("load_method", "ok"))
                /\ temp_dir' = ExitTempDir(temp_dir, FALSE)
                /\ result' = [NoResult EXCEPT !.op = "load", !.status = "ok", !.model = r.model]
                /\ pc' = "idle"
           ELSE /\ trace' = Append(trace, Failed("load_method", r.error))
                /\ temp_dir' = ExitTempDir(temp_dir, TRUE)
                /\ Abort(r.error)
    /\ UNCHANGED <<call, staging_bucket, buckets, gcs, artifacts, clock,
                   budget, last_saved, saves>>
    /\ UNCHANGED <<enc_vars, cfg_vars>>

\* ---- register_model
\* the serving_container_image_uri argument: None or "" (no image), or an image
NoImage == <<>>
CustomImage == <<"gcr.io/team-project/serving">>
Images == {NoImage, CustomImage}

\* the display_name argument: None or "", or a name
NoDisplayName == <<>>
DisplayNames == {NoDisplayName, <<"my model">>}

\* line 603: `if not serving_container_image_uri`
NeedsPrebuiltContainer(image) == image = NoImage

\* the accelerator following use_gpu alone, whatever the framework
Accelerator_GpuOnRequest(framework_name, use_gpu) == IF use_gpu THEN "gpu" ELSE "cpu"

\* lines 604-607: "gpu" for a tensorflow record with use_gpu, else "cpu"
Accelerator(framework_name, use_gpu) ==
    IF framework_name = "tensorflow" /\ use_gpu THEN "gpu" ELSE "cpu"

\* helpers._get_closest_match_prebuilt_container_uri(framework, framework_version,
\* region, accelerator): the image of the catalog for these, or ValueError
\* when the catalog has none
get_closest_match_prebuilt_container_uri(framework, framework_version, region, accelerator) ==
    <<framework, framework_version, region, accelerator>>
NoPrebuiltContainer(framework) ==
    ValueError(<<"No serving container for ", framework>>)

\* lines 616-617: models.Model._generate_display_name(f"{framework_name} model")
DisplayName(display_name, framework_name) ==
    IF display_name = NoDisplayName THEN <<framework_name, " model">> ELSE display_name

\* ---- lines 593-603: resolve the record, read its fields, pick the branch
register_model_begin(is_str, id, rec, image, use_gpu, display_name) ==
    /\ pc = "idle"
    /\ LET c == [NoCall EXCEPT !.op = "register", !.arg_is_str = is_str, !.arg_id = id,
                               !.image_arg = image,
                               !.serving_container_image_uri = image,
                               !.use_gpu = use_gpu, !.display_name = display_name]
       IN  \/ /\ is_str
              /\ ~HasArtifact(artifacts, id)
              /\ call' = c
              /\ trace' = <<Failed("get_experiment_model", NotFound(id.name))>>
              /\ pc' = "idle"
              /\ result' = Raised("register", NotFound(id.name))
           \/ /\ is_str => HasArtifact(artifacts, id)
              /\ LET model == IF is_str THEN get_experiment_model(artifacts, id) ELSE rec
                 IN  /\ call' = [c EXCEPT !.record = model, !.uri = model.uri,
                                          !.framework_name = model.framework_name,
                                          !.framework_version = model.framework_version]
                     /\ trace' = IF is_str THEN <<Step("get_experiment_model", "ok")>>
                                 ELSE <<>>
                     /\ result' = NoResult
                     /\ pc' = IF NeedsPrebuiltContainer(image) THEN "register_container"
                              ELSE "register_upload"
    /\ UNCHANGED <<staging_bucket, buckets, gcs, artifacts, temp_dir, clock,
                   budget, last_saved, saves>>
    /\ UNCHANGED <<enc_vars, cfg_vars>>

\* ---- lines 604-614: the accelerator, then the prebuilt-container catalog
register_container ==
    /\ pc = "register_container"
    /\ LET accelerator == Accelerator(call.framework_name, call.use_gpu)
           step == "get_closest_match_prebuilt_container_uri"
       IN  \/ /\ trace' = Append(trace, StepWith(step, "ok", <<accelerator>>))
              /\ call' = [call EXCEPT !.serving_container_image_uri =
                            get_closest_match_prebuilt_container_uri(
                                call.framework_name, call.framework_version,
                                Location, accelerator)]
              /\ pc' = "register_upload"
              /\ UNCHANGED result
           \/ /\ LET e == NoPrebuiltContainer(call.framework_name)
                 IN  /\ trace' = Append(trace, [Failed(step, e) EXCEPT !.arg = <<accelerator>>])
                     /\ Abort(e)
              /\ UNCHANGED call
    /\ UNCHANGED <<staging_bucket, buckets, gcs, artifacts, temp_dir, clock,
                   budget, last_saved, saves>>
    /\ UNCHANGED <<enc_vars, cfg_vars>>

\* ---- lines 616-649: the display name, then models.Model.upload(...)
register_upload ==
    /\ pc = "register_upload"
    /\ call' = [call EXCEPT !.display_name = DisplayName(@, call.framework_name)]
    /\ \/ /\ trace' = Append(trace, StepWith("Model.upload", "ok",
                                             call.serving_container_image_uri))
          /\ result' = [NoResult EXCEPT !.op = "register", !.status = "ok"]
          /\ pc' = "idle"
       \/ /\ trace' = Append(trace, [Failed("Model.upload", ApiError("Model.upload"))
                                        EXCEPT !.arg = call.serving_container_image_uri])
          /\ Abort(ApiError("Model.upload"))
    /\ UNCHANGED <<staging_bucket, buckets, gcs, artifacts, temp_dir, clock,
                   budget, last_saved, saves>>
    /\ UNCHANGED <<enc_vars, cfg_vars>>

\* ================================================================= _Config
\* initializer.py, lines 20-40: the configuration delegate. The shared global
\* configuration object it forwards to is aiplatform.initializer.global_config,
\* whose staging_bucket save_model reads (line 132).

\* the remote argument of init: left out, None, True, False
RemoteArgs == {"omitted", "None", "True", "False"}

\* line 27: `remote: Optional[bool] = False`
DefaultRemote(arg) == IF arg = "omitted" THEN "False" ELSE arg

\* the flag a new _Config starts with, were it True
NewConfigRemote_True == TRUE

\* lines 23-24: self._remote = False
NewConfigRemote == FALSE

\* a None argument resetting the flag
InitRemote_NoneResets(flag, arg) == DefaultRemote(arg) = "True"

\* lines 28-29: `if remote is not None: self._remote = remote`
InitRemote(flag, arg) ==
    IF DefaultRemote(arg) # "None" THEN DefaultRemote(arg) = "True" ELSE flag

\* the keyword arguments of init: none, or a staging bucket
NoKwargs == [staging_bucket |-> NoBucket]
Kwargs == {NoKwargs, [staging_bucket |-> ConfiguredBucket]}

\* aiplatform.init(**kwargs): sets what the arguments name
aiplatform_init(bucket, kwargs) ==
    IF kwargs.staging_bucket # NoBucket THEN kwargs.staging_bucket ELSE bucket

\* getattr(aiplatform.initializer.global_config, name)
GlobalAttrs == {"staging_bucket", "project", "location"}
AttrNames == GlobalAttrs \cup {"no_such_attribute"}
global_config_getattr(bucket, name) ==
    IF name = "staging_bucket" THEN bucket
    ELSE IF name = "project" THEN <<Project>>
    ELSE <<Location>>
AttributeError(name) == [type |-> "AttributeError", msg |-> <<name>>]

NoCfgResult == [op |-> "", status |-> "", flag |-> FALSE, value |-> <<>>, error |-> NoError]

\* ---- lines 27-30: init(remote=..., **kwargs)
config_init(arg, kwargs) ==
    /\ Len(inits) < MaxInits
    /\ inits' = Append(inits, arg)
    /\ remote' = InitRemote(remote, arg)
    /\ \/ /\ staging_bucket' = aiplatform_init(staging_bucket, kwargs)
          /\ cfg_result' = [NoCfgResult EXCEPT !.op = "init", !.status = "ok"]
       \/ /\ cfg_result' = [NoCfgResult EXCEPT !.op = "init", !.status = "error",
                                               !.error = ApiError("aiplatform.init")]
          /\ UNCHANGED staging_bucket
    /\ UNCHANGED <<pc, call, buckets, gcs, artifacts, temp_dir, trace, result,
                   clock, budget, last_saved, saves>>
    /\ UNCHANGED enc_vars

\* ---- lines 32-34: the remote property
config_remote ==
    /\ cfg_result' = [NoCfgResult EXCEPT !.op = "remote", !.status = "ok", !.flag = remote]
    /\ UNCHANGED <<remote, inits>>
    /\ UNCHANGED <<orch_vars, enc_vars>>

\* ---- lines 36-37: __getattr__(name), for a name the delegate does not define
config_getattr(name) ==
    /\ cfg_result' =
          IF name \in GlobalAttrs
          THEN [NoCfgResult EXCEPT !.op = "getattr", !.status = "ok",
                                   !.value = global_config_getattr(staging_bucket, name)]
          ELSE [NoCfgResult EXCEPT !.op = "getattr", !.status = "error",
                                   !.error = AttributeError(name)]
    /\ UNCHANGED <<remote, inits>>
    /\ UNCHANGED <<orch_vars, enc_vars>>

\* ---- the encoder alone: lines 187-289 on the drawn input
save_input_example_call ==
    /\ enc_pc = "ready"
    /\ LET r == save_input_example(input_example, path, pandas)
       IN  /\ path' = r.dir
           /\ enc_result' = [status |-> IF r.ok THEN "ok" ELSE "error", error |-> r.error]
    /\ enc_pc' = "done"
    /\ UNCHANGED <<input_example, pandas>>
    /\ UNCHANGED <<orch_vars, cfg_vars>>

\* ========================================================== specifications
\* the input examples save_model is called with
NoInputExample == [ty |-> "None", items |-> <<>>]
GoodInputExample ==
    [ty |-> "list", items |-> [i \in 1..6 |-> Elem("", "list", <<i>>)]]
BadInputExample ==
    [ty |-> "dict", items |-> <<Elem("a", "scalar", <<1>>), Elem("b", "list", <<1, 2>>)>>]
SaveExamples == {NoInputExample, GoodInputExample, BadInputExample}

\* the calls of save_model: every combination of the arguments that a call
\* reads; an argument a call ends before reading is left at its default
SaveArgs ==
    {a \in [model : Models, artifact_id : ArtifactIds, uri : ExplicitUris \cup {NoUri},
            input_example : SaveExamples, project : Projects, sklearn : Installs] :
        /\ IsBaseEstimator(a.model) => a.sklearn # NotInstalled
        /\ ~IsBaseEstimator(a.model) =>
              a.uri = NoUri /\ a.project = "" /\ a.input_example = NoInputExample
                  /\ a.artifact_id = NoId
        /\ ~Picklable(a.model) => a.input_example = NoInputExample /\ a.artifact_id = NoId
        /\ a.uri # NoUri => a.project = ""}

\* whether load_model of this id gets as far as `import sklearn`; a call that
\* ends before it is drawn with sklearn installed only
ReadsImport(records, id) ==
    \E i \in 1..Len(records) :
        records[i].id = id /\ ~Unsupported(records[i].framework_name)

InitOrch ==
    /\ pc = "idle"
    /\ call = NoCall
    /\ staging_bucket \in {NoBucket, ConfiguredBucket}
    /\ buckets \in SUBSET {StagingBucketName(Project, Location)}
    /\ gcs = [u \in {} |-> EmptyDir]
    /\ artifacts = <<ForeignArtifact>>
    /\ temp_dir = NoTempDir
    /\ trace = <<>>
    /\ result = NoResult
    /\ clock = 0
    /\ last_saved = NoSave
    /\ saves = <<>>

\* initializer.py, line 40: global_config = _Config()
InitConfig ==
    /\ remote = NewConfigRemote
    /\ inits = <<>>
    /\ cfg_result = NoCfgResult

InitEncIdle ==
    /\ input_example = NoInputExample
    /\ pandas = TRUE
    /\ path = EmptyDir
    /\ enc_result = [status |-> "", error |-> NoError]
    /\ enc_pc = "done"

Init == InitOrch /\ InitEncIdle /\ InitConfig /\ budget = MaxSaves

Next ==
    \/ \E a \in SaveArgs :
          save_model_begin(a.model, a.artifact_id, a.uri, a.input_example, a.project,
                           a.sklearn)
    \/ save_bucket_exists
    \/ save_create_bucket
    \/ save_unique_name
    \/ save_serialize
    \/ save_example
    \/ save_upload
    \/ save_artifact
    \/ \E id \in IdsOf(artifacts) \cup {ArtifactId("missing", 0)}, v \in Installs :
          /\ ReadsImport(artifacts, id) \/ v \in Versions
          /\ load_model_begin(TRUE, id, NoArtifact, v)
    \/ \E i \in 1..Len(artifacts), v \in Installs :
          /\ ReadsImport(artifacts, artifacts[i].id) \/ v \in Versions
          /\ load_model_begin(FALSE, NoId, artifacts[i], v)
    \/ load_download
    \/ load_method

Spec == Init /\ [][Next]_vars

\* the same model saved again and again, with no input example
RepeatedModel == Model("sklearn.linear_model._base", "LinearRegression", "coef_a")

InitRepeat == InitOrch /\ InitEncIdle /\ InitConfig /\ budget = MaxRepeats

NextRepeat ==
    \/ \E aid \in ArtifactIds, u \in ExplicitUris \cup {NoUri}, v \in Versions :
          save_model_begin(RepeatedModel, aid, u, NoInputExample, "", v)
    \/ save_bucket_exists
    \/ save_create_bucket
    \/ save_unique_name
    \/ save_serialize
    \/ save_upload
    \/ save_artifact

SpecRepeat == InitRepeat /\ [][NextRepeat]_vars

\* register_model on the records of a metadata store: one of a framework with
\* no adapter here, one an earlier save_model created
SavedArtifact ==
    [id |-> ArtifactId("", 2), framework_name |-> "sklearn",
     framework_version |-> "1.2.2", model_file |-> "model.pkl",
     model_class |-> <<"sklearn.linear_model._base", ".", "LinearRegression">>,
     predict_schemata |-> NoPath,
     uri |-> [bucket |-> ConfiguredBucket, unique |-> timestamped_unique_name(1, "0b7e1"),
              rest |-> <<"-", "sklearn", "-model">>]]

InitRegister ==
    /\ pc = "idle"
    /\ call = NoCall
    /\ staging_bucket = ConfiguredBucket
    /\ buckets = {}
    /\ gcs = [u \in {SavedArtifact.uri} |->
                [EmptyDir EXCEPT !.pkl = pickle_dump(RepeatedModel)]]
    /\ artifacts = <<ForeignArtifact, SavedArtifact>>
    /\ temp_dir = NoTempDir
    /\ trace = <<>>
    /\ result = NoResult
    /\ clock = 1
    /\ last_saved = NoSave
    /\ saves = <<>>
    /\ budget = 0
    /\ InitEncIdle
    /\ InitConfig

NextRegister ==
    \/ \E id \in IdsOf(artifacts) \cup {ArtifactId("missing", 0)},
          image \in Images, use_gpu \in BOOLEAN, display_name \in DisplayNames :
          register_model_begin(TRUE, id, NoArtifact, image, use_gpu, display_name)
    \/ \E i \in 1..Len(artifacts),
          image \in Images, use_gpu \in BOOLEAN, display_name \in DisplayNames :
          register_model_begin(FALSE, NoId, artifacts[i], image, use_gpu, display_name)
    \/ register_container
    \/ register_upload

SpecRegister == InitRegister /\ [][NextRegister]_vars

\* one model saved under one version of sklearn and loaded under another (or
\* with sklearn missing)
InitVersion ==
    /\ InitOrch
    /\ staging_bucket = ConfiguredBucket
    /\ buckets = {}
    /\ InitEncIdle
    /\ InitConfig
    /\ budget = MaxSaves

NextVersion ==
    \/ \E v \in SklearnVersions :
          save_model_begin(RepeatedModel, NoId, NoUri, NoInputExample, "", v)
    \/ save_unique_name
    \/ save_serialize
    \/ save_upload
    \/ save_artifact
    \/ \E id \in IdsOf(artifacts), v \in SklearnVersions \cup {NotInstalled} :
          /\ ReadsImport(artifacts, id) \/ v \in Versions
          /\ load_model_begin(TRUE, id, NoArtifact, v)
    \/ load_download
    \/ load_method

SpecVersion == InitVersion /\ [][NextVersion]_vars

\* the configuration delegate alone: calls of init, reads of remote and of
\* forwarded attributes, in any order
InitCfg ==
    /\ InitOrch
    /\ buckets = {}
    /\ budget = 0
    /\ InitEncIdle
    /\ InitConfig

NextCfg ==
    \/ \E arg \in RemoteArgs, kwargs \in Kwargs : config_init(arg, kwargs)
    \/ config_remote
    \/ \E name \in AttrNames : config_getattr(name)

SpecConfig == InitCfg /\ [][NextCfg]_vars

\* the encoder on every bounded input example
InitEnc ==
    /\ input_example \in ExampleInputs
    /\ pandas \in BOOLEAN
    /\ input_example.ty = "DataFrame" => pandas
    /\ path = EmptyDir
    /\ enc_result = [status |-> "", error |-> NoError]
    /\ enc_pc = "ready"
    /\ InitOrch
    /\ staging_bucket = NoBucket
    /\ buckets = {}
    /\ budget = 0
    /\ InitConfig

NextEnc == save_input_example_call

SpecEnc == InitEnc /\ [][NextEnc]_vars


\* ================================================================== claims
Last(q) == q[Len(q)]
SaveStepsIn(q, steps) == {i \in 1..Len(q) : q[i].step \in steps}

\* whether a message holds module "." name in a row
HasQualifiedName(msg, m) ==
    \E i \in 1..(Len(msg) - 2) :
        msg[i] = m.module /\ msg[i + 1] = "." /\ msg[i + 2] = m.name

\* the model of a call is an sklearn estimator and sklearn can be imported
DetectedSklearn(c) ==
    /\ c.sklearn # NotInstalled
    /\ <<c.model.module, c.model.name>> \in EstimatorClasses

\* C1: save_model of a model whose framework is not in the registry (not a
\* BaseEstimator, or sklearn not importable) does nothing but raise
\* ValueError, and the message holds the model's module.ClassName.
C1_UnsupportedModelRaises ==
    (call.op = "save" /\ ~DetectedSklearn(call)) =>
        /\ pc = "idle"
        /\ result.op = "save"
        /\ result.status = "error"
        /\ result.error.type = "ValueError"
        /\ HasQualifiedName(result.error.msg, call.model)
        /\ trace = <<>>

C1_Witness ==
    /\ pc = "idle"
    /\ call.op = "save"
    /\ call.sklearn # NotInstalled
    /\ call.model.module = "torch.nn.modules.linear"
    /\ result.status = "error"

\* C2: a save_model call given an explicit uri issues no bucket-existence
\* check and no bucket creation, whatever the configured staging bucket.
C2_ExplicitUriNoBucketCalls ==
    (call.op = "save" /\ call.uri_arg # NoUri) =>
        SaveStepsIn(trace, {"bucket_exists", "create_bucket"}) = {}

C2_Witness ==
    /\ pc = "idle"
    /\ call.op = "save"
    /\ call.uri_arg # NoUri
    /\ staging_bucket = NoBucket
    /\ buckets = {}
    /\ result.status = "ok"

\* C3: load_model on the identifier of the record that the latest save_model
\* (given no input example, and with no save started since) returned gives
\* back a model equal to the saved one; it fails only when a collaborator
\* fails or sklearn cannot be imported.
C3_RoundTrip ==
    (/\ pc = "idle"
     /\ call.op = "load"
     /\ call.arg_is_str
     /\ last_saved.valid
     /\ ~last_saved.input_example
     /\ call.arg_id = last_saved.id) =>
        /\ result.status = "ok" => result.model = last_saved.model
        /\ result.status = "error" => result.error.type \in {"GoogleAPIError", "ImportError"}

C3_Witness ==
    /\ pc = "idle"
    /\ call.op = "load"
    /\ call.arg_is_str
    /\ last_saved.valid
    /\ ~last_saved.input_example
    /\ call.arg_id = last_saved.id
    /\ result.status = "ok"
    /\ result.model = Model("sklearn.linear_model._base", "LinearRegression", "coef_b")

\* C4: when a call of save_model or load_model has returned or raised, the
\* temporary directory it created is gone.
C4_TempDirRemoved ==
    pc = "idle" => ~temp_dir.exists

\* an upload that failed, and a deserialization that failed, inside the directory
C4_Witness ==
    /\ pc = "idle"
    /\ result.status = "error"
    /\ trace # <<>>
    /\ Last(trace).step \in {"upload_to_gcs", "load_method"}
    /\ Last(trace).outcome = "error"

\* C5: a list of more than 5 lists is written with type "list" and, as data,
\* its first 5 rows in order.
C5_NestedListFirstFive ==
    (/\ enc_pc = "done"
     /\ input_example.ty = "list"
     /\ AllKind(input_example.items, "list")
     /\ Len(input_example.items) > 5) =>
        /\ enc_result.status = "ok"
        /\ path.yaml.written
        /\ path.yaml.type = "list"
        /\ Len(path.yaml.data) = 5
        /\ \A i \in 1..5 : path.yaml.data[i] = input_example.items[i]

C5_Witness ==
    /\ enc_pc = "done"
    /\ input_example.ty = "list"
    /\ AllKind(input_example.items, "list")
    /\ Len(input_example.items) = 6
    /\ input_example.items[1] # input_example.items[2]
    /\ path.yaml.written

\* C6: a list of scalars, of any length, is written with type "list" and, as
\* data, the whole list in order.
C6_ScalarListWhole ==
    (/\ enc_pc = "done"
     /\ input_example.ty = "list"
     /\ AllKind(input_example.items, "scalar")) =>
        /\ enc_result.status = "ok"
        /\ path.yaml.written
        /\ path.yaml.type = "list"
        /\ Len(path.yaml.data) = Len(input_example.items)
        /\ \A i \in 1..Len(input_example.items) :
              path.yaml.data[i] = input_example.items[i]

C6_Witness ==
    /\ enc_pc = "done"
    /\ input_example.ty = "list"
    /\ AllKind(input_example.items, "scalar")
    /\ Len(input_example.items) = 6
    /\ input_example.items[1] # input_example.items[6]
    /\ path.yaml.written

SomeKind(items, kind) == \E i \in 1..Len(items) : items[i].kind = kind

\* C7: a dict with at least one scalar value and at least one list value
\* makes _save_input_example raise the dictionary ValueError, and no
\* descriptor is written.
C7_MixedDictRaises ==
    (/\ enc_pc = "done"
     /\ input_example.ty = "dict"
     /\ SomeKind(input_example.items, "scalar")
     /\ SomeKind(input_example.items, "list")) =>
        /\ enc_result.status = "error"
        /\ enc_result.error =
              ValueError(<<"The value inside a dictionary must be a scalar, list, or np.ndarray">>)
        /\ path = EmptyDir

C7_Witness ==
    /\ enc_pc = "done"
    /\ input_example.ty = "dict"
    /\ SomeKind(input_example.items, "scalar")
    /\ SomeKind(input_example.items, "list")
    /\ enc_result.status = "error"

\* the rows of a written document: the entries of a list or an array, the
\* longest column of a dict or a frame (a scalar value is one row)
Max(S) == IF S = {} THEN 0 ELSE CHOOSE x \in S : \A y \in S : y <= x
RowCount(doc) ==
    IF doc.type \in {"list", "numpy.ndarray"}
    THEN Len(doc.data)
    ELSE Max({IF doc.data[i].kind = "list" THEN Len(doc.data[i].val) ELSE 1 :
                i \in 1..Len(doc.data)})

\* C8 as stated: every document _save_input_example writes has at most 5 rows.
C8_Original ==
    (enc_pc = "done" /\ path.yaml.written) => RowCount(path.yaml) <= 5

\* C8, amended: every document written for a list of lists, a dict, an array
\* or a frame has at most 5 rows; the document of a list of scalars has as
\* many entries as the list, however long.
C8_RowCapButScalarLists ==
    (enc_pc = "done" /\ path.yaml.written) =>
        IF input_example.ty = "list" /\ ~AllKind(input_example.items, "list")
        THEN RowCount(path.yaml) = Len(input_example.items)
        ELSE RowCount(path.yaml) <= 5

\* a dict of arrays longer than 5, cut to 5
C8_Witness ==
    /\ enc_pc = "done"
    /\ path.yaml.written
    /\ input_example.ty = "dict"
    /\ Len(input_example.items) > 0
    /\ AllKind(input_example.items, "ndarray")
    /\ Len(input_example.items[1].val) = 6
    /\ RowCount(path.yaml) = 5

\* the record and the call of the i-th save_model that returned
RecordOf(i) == artifacts[i + 1]
AutoId(i) == saves[i].artifact_id = NoId

\* C9 as stated: two save_model calls with no explicit artifact id give two
\* records with distinct ids and distinct storage locations.
C9_Original ==
    \A i, j \in 1..Len(saves) :
        (i < j /\ AutoId(i) /\ AutoId(j)) =>
            /\ RecordOf(i).id # RecordOf(j).id
            /\ RecordOf(i).uri # RecordOf(j).uri

\* C9, amended: two save_model calls with no explicit artifact id give two
\* records with distinct ids; their storage locations are distinct when
\* neither call was given a uri.
C9_DistinctUnlessExplicitUri ==
    \A i, j \in 1..Len(saves) :
        (i < j /\ AutoId(i) /\ AutoId(j)) =>
            /\ RecordOf(i).id # RecordOf(j).id
            /\ RecordOf(i).uri = saves[i].uri
            /\ (saves[i].uri_arg = NoUri /\ saves[j].uri_arg = NoUri) =>
                  RecordOf(i).uri # RecordOf(j).uri

C9_Witness ==
    /\ Len(saves) = 2
    /\ AutoId(1) /\ AutoId(2)
    /\ saves[1].uri_arg = NoUri /\ saves[2].uri_arg = NoUri
    /\ saves[1].uri.unique.tok = saves[2].uri.unique.tok
    /\ saves[1].uri.bucket = saves[2].uri.bucket

\* C10, in every state: a failed step is the last step of its call and the
\* call raised what the step raised; a record was created only after the
\* upload completed.
C10_FailureEndsCall ==
    /\ \A i \in 1..Len(trace) :
          trace[i].outcome = "error" =>
              /\ i = Len(trace)
              /\ pc = "idle"
              /\ result.status = "error"
              /\ result.error = trace[i].error
    /\ \A i \in SaveStepsIn(trace, {"create"}) :
          \E j \in 1..(i - 1) : trace[j] = Step("upload_to_gcs", "ok")

\* C10, in every step of save_model: a step that raises creates no record,
\* and no step removes an uploaded file or a bucket.
Written(store) ==
    {<<u, "model.pkl">> : u \in {x \in DOMAIN store : store[x].pkl.written}}
    \cup {<<u, "instance.yaml">> : u \in {x \in DOMAIN store : store[x].yaml.written}}
C10_NoRollback ==
    call'.op = "save" =>
        /\ result'.status = "error" => artifacts' = artifacts
        /\ Len(artifacts') >= Len(artifacts)
        /\ buckets \subseteq buckets'
        /\ Written(gcs) \subseteq Written(gcs')

\* C10: a failure at any step of save_model aborts the call: no later step
\* runs, no record is created, the error propagates unchanged; the record is
\* created only after the upload; uploaded files and a created bucket stay.
C10_FailureAborts == []C10_FailureEndsCall /\ [][C10_NoRollback]_vars

\* a record creation that failed after the upload, the uploaded file still there
C10_Witness ==
    /\ pc = "idle"
    /\ call.op = "save"
    /\ result.status = "error"
    /\ trace # <<>>
    /\ Last(trace).step = "create"
    /\ call.uri \in DOMAIN gcs
    /\ gcs[call.uri].pkl.written

\* the entries of the trace that are calls of this collaborator
CallsOf(step) == {i \in 1..Len(trace) : trace[i].step = step}
CatalogCalls == CallsOf("get_closest_match_prebuilt_container_uri")
UploadCalls == CallsOf("Model.upload")

\* C11: register_model consults the prebuilt-container catalog if and only if
\* the caller gave no serving container image; the accelerator it passes is
\* "gpu" exactly when the record's framework is "tensorflow" and use_gpu is
\* true, and "cpu" otherwise; an image the caller gave reaches Model.upload
\* unchanged.
C11_CatalogIffNoImage ==
    call.op = "register" =>
        /\ call.image_arg # NoImage => CatalogCalls = {}
        /\ (call.image_arg = NoImage /\ (pc = "register_upload" \/ UploadCalls # {}))
              => CatalogCalls # {}
        /\ \A i \in CatalogCalls :
              /\ call.image_arg = NoImage
              /\ trace[i].arg =
                    <<IF call.record.framework_name = "tensorflow" /\ call.use_gpu
                      THEN "gpu" ELSE "cpu">>
        /\ \A i \in UploadCalls :
              /\ call.image_arg # NoImage => trace[i].arg = call.image_arg
              /\ \A j \in CatalogCalls : j < i

\* a tensorflow record registered with use_gpu and no image: the catalog was
\* asked for "gpu" and the upload was made
C11_Witness ==
    /\ pc = "idle"
    /\ call.op = "register"
    /\ result.status = "ok"
    /\ call.image_arg = NoImage
    /\ call.use_gpu
    /\ call.record.framework_name = "tensorflow"
    /\ \E i \in CatalogCalls : trace[i].arg = <<"gpu">>
    /\ UploadCalls # {}

\* C12, first half: the flag is false in the initial state, and for as long as
\* init has not been called
C12_FalseBeforeInit == inits = <<>> => remote = FALSE

\* C12, second half: a step that changes the flag is a call of init; a read of
\* remote or of a forwarded attribute leaves it as it was
C12_OnlyInitWrites ==
    /\ remote' # remote => cfg_result'.op = "init"
    /\ cfg_result'.op \in {"remote", "getattr"} => remote' = remote

\* C12: the remote flag is false in the initial state and changes only as the
\* effect of a call of _Config.init; reading remote, or any other attribute
\* (forwarded to the shared global configuration), leaves it unchanged.
C12_FlagWrittenByInitOnly == []C12_FalseBeforeInit /\ [][C12_OnlyInitWrites]_vars

\* the flag set by init, then remote read back as set
C12_Witness ==
    /\ remote = TRUE
    /\ cfg_result.op = "remote"
    /\ cfg_result.flag = TRUE
    /\ inits # <<>>

\* the flag the claim expects after these calls of init: the argument of the
\* most recent call whose argument was not None, an omitted argument counting
\* as False; false when there is no such call
RECURSIVE ExpectedRemote(_)
ExpectedRemote(args) ==
    IF args = <<>> THEN FALSE
    ELSE IF Last(args) = "None" THEN ExpectedRemote(SubSeq(args, 1, Len(args) - 1))
    ELSE Last(args) = "True"

\* C16: after any sequence of calls of init the flag equals the remote argument
\* of the most recent call whose argument was not None (a call that omits
\* remote counts as remote=False, a call with remote=None leaves the flag);
\* the flag is set before the keyword arguments are forwarded, so it holds the
\* new value also when the forwarded aiplatform.init fails.
C16_FlagFollowsLastInit == remote = ExpectedRemote(inits)

\* init(remote=True), then init(remote=None) failing in aiplatform.init: the
\* flag is still true
C16_Witness ==
    /\ Len(inits) >= 2
    /\ inits[Len(inits) - 1] = "True"
    /\ Last(inits) = "None"
    /\ cfg_result.op = "init"
    /\ cfg_result.status = "error"
    /\ remote = TRUE

\* the names of the framework adapter registry
RegistryNames == {"sklearn"}
DownloadCalls == CallsOf("download_file_from_gcs")

\* C13: in load_model the framework check precedes every storage access: for a
\* record whose framework is not in the registry the call raises the
\* unsupported-framework ValueError and no download is issued; otherwise the
\* model file is downloaded from the record's storage location before the
\* deserializer runs; the metadata service is queried for the record if and
\* only if the argument was an identifier string.
C13_CheckThenDownloadThenLoad ==
    call.op = "load" =>
        /\ (call.record # NoArtifact /\ call.record.framework_name \notin RegistryNames) =>
              /\ pc = "idle"
              /\ result.status = "error"
              /\ result.error.type = "ValueError"
              /\ result.error.msg =
                    <<"Model type ", call.record.framework_name, " not supported.">>
              /\ DownloadCalls = {}
        /\ pc \in {"load_download", "load_method"} =>
              call.record.framework_name \in RegistryNames
        /\ DownloadCalls # {} => call.record.framework_name \in RegistryNames
        /\ \A i \in CallsOf("load_method") :
              \E j \in DownloadCalls : j < i /\ trace[j].outcome = "ok"
        /\ pc = "load_method" =>
              /\ \E j \in DownloadCalls : trace[j].outcome = "ok"
              /\ call.record.uri \in DOMAIN gcs
              /\ temp_dir.files.pkl = gcs[call.record.uri].pkl
        /\ CallsOf("get_experiment_model") # {} <=> call.arg_is_str

\* load_model of the id of a tensorflow record: the record was fetched, the
\* call raised, nothing was downloaded
C13_Witness ==
    /\ pc = "idle"
    /\ call.op = "load"
    /\ call.arg_is_str
    /\ call.record.framework_name = "tensorflow"
    /\ result.status = "error"
    /\ result.error.type = "ValueError"
    /\ trace = <<Step("get_experiment_model", "ok")>>

ExistsCalls == CallsOf("bucket_exists")
CreateCalls == CallsOf("create_bucket")

\* the default staging bucket of the call: <project>-vertex-staging-<location>,
\* the project being the argument or else the configured one
DefaultBucketOf(c) ==
    <<IF c.project # "" THEN c.project ELSE "my-project",
      "-vertex-staging-", "us-central1">>

\* C15: save_model with no uri and no configured staging bucket checks the
\* bucket <project>-vertex-staging-<location> for existence before any
\* creation, and creates it if and only if the check reports it absent; with a
\* staging bucket configured it issues neither call. Either way the
\* destination is <staging bucket>/<timestamped unique name>-<framework>-model.
C15_CheckBeforeCreate ==
    (call.op = "save" /\ call.uri_arg = NoUri /\ call.framework_name = "sklearn") =>
        /\ staging_bucket # NoBucket =>
              /\ ExistsCalls = {} /\ CreateCalls = {}
              /\ call.uri # NoUri => call.uri.bucket = staging_bucket
        /\ staging_bucket = NoBucket =>
              /\ pc \notin {"idle", "save_exists"} => ExistsCalls = {1}
              /\ \A i \in ExistsCalls \cup CreateCalls :
                    trace[i].outcome # "error" => trace[i].arg = DefaultBucketOf(call)
              /\ \A i \in CreateCalls :
                    \E j \in ExistsCalls : j < i /\ trace[j].outcome = "absent"
              /\ \A j \in ExistsCalls :
                    /\ trace[j].outcome = "absent" =>
                          IF Len(trace) > j THEN trace[j + 1].step = "create_bucket"
                          ELSE pc = "save_create_bucket"
                    /\ trace[j].outcome # "absent" => CreateCalls = {}
              /\ call.uri # NoUri =>
                    call.uri.bucket = <<"gs://">> \o DefaultBucketOf(call)
        /\ call.uri # NoUri =>
              /\ call.uri.unique # NoUnique
              /\ call.uri.rest = <<"-", "sklearn", "-model">>
        /\ pc \in {"save_serialize", "save_example", "save_upload", "save_artifact"} =>
              call.uri # NoUri

\* a save with no uri and no staging bucket: the bucket of the given project
\* was found absent, created, and the model saved under it
C15_Witness ==
    /\ pc = "idle"
    /\ call.op = "save"
    /\ call.uri_arg = NoUri
    /\ staging_bucket = NoBucket
    /\ call.project = "team-project"
    /\ result.status = "ok"
    /\ Len(trace) >= 2
    /\ trace[1] = StepWith("bucket_exists", "absent",
                           <<"team-project", "-vertex-staging-", "us-central1">>)
    /\ trace[2].step = "create_bucket"
    /\ call.uri.bucket = <<"gs://", "team-project", "-vertex-staging-", "us-central1">>

\* a load_model call that got as far as unpickling the file, and whether the
\* version warning was logged on the way
Deserialized ==
    /\ pc = "idle"
    /\ call.op = "load"
    /\ CallsOf("load_method") # {}
    /\ call.sklearn # NotInstalled
Warned == CallsOf("_LOGGER.warning") # {}

\* python's `running < recorded` on these version strings
RawStringLess ==
    {<<"1.2.2", "1.3.0">>, <<"1.2.2", "1.9.0">>, <<"1.3.0", "1.9.0">>,
     <<"1.10.0", "1.2.2">>, <<"1.10.0", "1.3.0">>, <<"1.10.0", "1.9.0">>}

\* C14 as stated: whenever the running version differs from the recorded one
\* the warning is emitted, and the model is deserialized and returned.
C14_Original ==
    Deserialized =>
        /\ call.sklearn # call.record.framework_version => Warned
        /\ result.status = "ok"

\* C14, amended: the warning is emitted exactly when the running version
\* string is less than the recorded one as raw strings; warned or not, the
\* model file is deserialized and the model returned.
C14_WarnsWhenStringLess ==
    Deserialized =>
        /\ Warned <=> <<call.sklearn, call.record.framework_version>> \in RawStringLess
        /\ Warned => Last(trace).step = "load_method"
        /\ result.status = "ok"
        /\ result.model = RepeatedModel

\* a model saved under 1.9.0 and loaded under 1.10.0: warned, and returned
C14_Witness ==
    /\ Deserialized
    /\ call.sklearn = "1.10.0"
    /\ call.record.framework_version = "1.9.0"
    /\ Warned
    /\ result.status = "ok"
    /\ result.model = RepeatedModel

====
